---- MODULE Spec2Model ----
(***************************************************************************)
(* Model of the phone-number plugin                                        *)
(* (packages/better-auth/src/plugins/phone-number/index.ts): the five      *)
(* endpoints signInPhoneNumber, sendPhoneNumberOTP, verifyPhoneNumber,     *)
(* forgetPasswordPhoneNumber and resetPasswordPhoneNumber, over the user,  *)
(* account, session and verification stores they call.                    *)
(*                                                                         *)
(* Under Spec each endpoint is one action: a request is handled from its   *)
(* first store call to its response without another request in between.    *)
(* Under RaceSpec two requests are in flight and every store call is a     *)
(* step of its own.  Time is a counter that Tick advances between steps.   *)
(***************************************************************************)
EXTENDS Naturals, Sequences, FiniteSets, TLC

(* ---------------------------- bounds ----------------------------------- *)

\* the clock runs over 0..MaxTime
MaxTime == 2
\* at most this many user rows
MaxUsers == 2
\* at most this many session rows
MaxSessions == 1
\* at most this many requests are handled in one behaviour
MaxRequests == 4

(* ---------------------------- configuration ---------------------------- *)

\* options.expiresIn of the modelled configuration, in clock units
ExpiresIn == 1
\* options.otpLength of the modelled configuration
OtpLength == 1

(* ---------------------------- input sets ------------------------------- *)

\* the alphabet generateOTP draws from, cut down to two digits
Digits == {"0", "1"}

\* the suffix of the recovery identifier (index.ts:595, 622)
ForgetSuffix == "-forget-password"

\* phone-number strings a request body may carry: z.string() accepts any
\* string, so a string that ends in the recovery suffix is among them
Phones == {"7", "7" \o ForgetSuffix}

\* passwords a request body may carry
Passwords == {"a", "b"}

\* an account row without a password, a sendOTP result without a reason
NoPassword == "<null>"
NoReason == "<undefined>"

(* ---------------------------- error texts ------------------------------ *)

INVALID_PHONE_NUMBER == "Invalid phone number"
INVALID_PHONE_NUMBER_OR_PASSWORD == "Invalid phone number or password"
UNEXPECTED_ERROR == "Unexpected error"
OTP_NOT_FOUND == "OTP not found"
OTP_EXPIRED == "OTP expired"
INVALID_OTP == "Invalid OTP"
USER_CHOICE == "OTP generation set to false"
NOT_REGISTERED == "phone number isn't registered"
SEND_OTP_NOT_IMPLEMENTED == "sendOTP not implemented"
USER_NOT_FOUND == "USER_NOT_FOUND"
FAILED_TO_CREATE_USER == "FAILED_TO_CREATE_USER"
FAILED_TO_CREATE_SESSION == "FAILED_TO_CREATE_SESSION"

(* ---------------------------- pure helpers ----------------------------- *)

\* generateOTP(size): the strings of size characters over the digits
RECURSIVE generateOTP(_)
generateOTP(size) ==
    IF size = 0 THEN {""}
    ELSE {d \o s : d \in Digits, s \in generateOTP(size - 1)}

\* codes a request body may carry
Codes == generateOTP(OtpLength)

\* the phoneNumberValidator of the modelled configuration: digits only
RECURSIVE AllDigits(_, _)
AllDigits(s, i) ==
    IF i > Len(s) THEN TRUE
    ELSE /\ SubSeq(s, i, i) \in {"0","1","2","3","4","5","6","7","8","9"}
         /\ AllDigits(s, i + 1)

phoneNumberValidator(p) == Len(p) > 0 /\ AllDigits(p, 1)

\* ctx.context.password.hash and ctx.context.password.verify
Hash(plain) == "h:" \o plain
PasswordVerify(hash, password) == hash = Hash(password)

\* signUpOnVerification.getTempEmail / getTempName of the configuration
getTempEmail(p) == p \o "@temp.example"
getTempName(p) == "user " \o p

\* getDate(opts.expiresIn, "sec") evaluated at clock value t
getDate(t) == t + ExpiresIn

\* the identifier the recovery flow stores and reads (index.ts:595, 622)
ForgetIdentifier(p) == p \o ForgetSuffix

VARIABLES
    opts,          \* the plugin options, fixed at construction
    now,           \* the clock (new Date())
    verification,  \* verification store: identifier -> [value, expiresAt]
    users,         \* user rows, the id is the position
    accounts,      \* accounts[id]: the account rows of user id
    sessions,      \* session rows, the token is the position
    last,          \* the last request (the inputs it read) and its response
    origin,        \* history: which endpoint wrote verification[identifier],
                   \* and the code it overwrote
    spent,         \* history: <<identifier, code>> of the records a passed
                   \* check consumed, until the identifier is issued again
    requests,      \* history: the number of requests handled so far
    race           \* the requests in flight, each between two of its store
                   \* calls; used by the interleaved specification only

vars == <<opts, now, verification, users, accounts, sessions, last,
          origin, spent, requests, race>>

(* ---------------------------- the stores ------------------------------- *)

\* internalAdapter.findVerificationValue(identifier): is there a record
findVerificationValue(store, identifier) == identifier \in DOMAIN store

\* internalAdapter.createVerificationValue: the record of the identifier
\* is written, replacing the one that was there
createVerificationValue(store, identifier, value, expiresAt) ==
    [i \in DOMAIN store \cup {identifier} |->
        IF i = identifier THEN [value |-> value, expiresAt |-> expiresAt]
        ELSE store[i]]

\* internalAdapter.deleteVerificationValue(otp.id)
deleteVerificationValue(store, identifier) ==
    [i \in DOMAIN store \ {identifier} |-> store[i]]

\* adapter.findOne({model: "user", where: phoneNumber = value}): the ids it
\* may return, {0} when no row matches
findOne(rows, phoneNumber) ==
    LET found == {id \in 1..Len(rows) : rows[id].phoneNumber = phoneNumber}
    IN  IF found = {} THEN {0} ELSE found

\* internalAdapter.createUser(attributes): the rows with the new one
createUser(rows, attributes) == Append(rows, attributes)

\* internalAdapter.updateUser(id, attributes): the named fields are replaced
updateUser(rows, id, attributes) ==
    [rows EXCEPT ![id] =
        [f \in DOMAIN rows[id] |->
            IF f \in DOMAIN attributes THEN attributes[f] ELSE rows[id][f]]]

\* internalAdapter.updatePassword(userId, hash): the credential accounts of
\* the user get the hash
updatePassword(accts, id, hash) ==
    [accts EXCEPT ![id] =
        {IF a.providerId = "credential" THEN [a EXCEPT !.password = hash]
         ELSE a : a \in accts[id]}]

\* internalAdapter.createSession(userId, ...): the rows with the new one
createSession(rows, id) == Append(rows, id)

\* accounts.find((a) => a.providerId === "credential")
CredentialAccounts(accts, id) ==
    {a \in accts[id] : a.providerId = "credential"}

(* ---------------------------- requests --------------------------------- *)

\* no request is in flight: every request runs from its first store call to
\* its response in one step
NoRace == [procs |-> << >>, ids |-> << >>, persisted |-> << >>]

\* no request yet; a request fills in the inputs its handler read
NoRequest ==
    [op |-> "none", phoneNumber |-> "", code |-> "", password |-> "",
     updatePhoneNumber |-> FALSE, disableSession |-> FALSE,
     status |-> "", message |-> "", token |-> 0, user |-> 0,
     calls |-> {}, fault |-> FALSE, generate |-> FALSE,
     reason |-> NoReason, held |-> FALSE, by |-> ""]

\* what sendOTP may return: void, or a veto with or without a reason
SendOTPResults ==
    {[generate |-> FALSE, reason |-> NoReason],
     [generate |-> TRUE, reason |-> "no channel"],
     [generate |-> TRUE, reason |-> NoReason]}

InitialUser ==
    [phoneNumber |-> "7", phoneNumberVerified |-> FALSE,
     email |-> "u1@mail.example", name |-> "u1"]

\* a user row whose phoneNumber is not set (the field is not required)
NoPhoneNumber == "<unset>"

\* a user who signed up without a phone number and holds a session
SessionUser ==
    [phoneNumber |-> NoPhoneNumber, phoneNumberVerified |-> FALSE,
     email |-> "u2@mail.example", name |-> "u2"]

\* the account rows the initial user may have
InitialAccounts ==
    {{},
     {[providerId |-> "credential", password |-> NoPassword]},
     {[providerId |-> "credential", password |-> Hash("a")]}}

\* the configurations the plugin is constructed with; without sendOTP one
\* configuration stands for all
Configs ==
    {c \in [validator : BOOLEAN,
            signUpOnVerification : {"none", "email", "emailAndName"},
            sendOTP : BOOLEAN] :
        c.sendOTP \/ (~c.validator /\ c.signUpOnVerification = "none")}

Init ==
    /\ opts \in Configs
    /\ now = 0
    /\ verification = << >>
    /\ \/ users = << >> /\ accounts = << >> /\ sessions = << >>
       \/ /\ users = <<InitialUser>>
          /\ \E a \in InitialAccounts : accounts = <<a>>
          /\ sessions = << >>
       \/ /\ users = <<InitialUser, SessionUser>>
          /\ accounts = <<{}, {}>>
          /\ sessions = <<2>>
    /\ last = NoRequest
    /\ origin = << >>
    /\ spent = {}
    /\ requests = 0
    /\ race = NoRace

\* the clock advances between two requests
Tick ==
    /\ now < MaxTime
    /\ now' = now + 1
    /\ UNCHANGED <<opts, verification, users, accounts, sessions, last,
                   origin, spent, requests, race>>

(* ---------------------------- signInPhoneNumber ------------------------ *)

\* index.ts:198-229, the checks between the user lookup and the session:
\* the error message, "" when all of them pass
SignInCheck(user, accts, password) ==
    IF user = 0 THEN INVALID_PHONE_NUMBER_OR_PASSWORD
    ELSE IF CredentialAccounts(accts, user) = {}
         THEN INVALID_PHONE_NUMBER_OR_PASSWORD
    ELSE LET credentialAccount ==
                 CHOOSE a \in CredentialAccounts(accts, user) : TRUE
         IN  IF credentialAccount.password = NoPassword THEN UNEXPECTED_ERROR
             ELSE IF ~PasswordVerify(credentialAccount.password, password)
                  THEN INVALID_PHONE_NUMBER_OR_PASSWORD
             ELSE ""

signInPhoneNumber(phoneNumber, password, sessionFault) ==
    LET req == [NoRequest EXCEPT !.op = "signIn", !.phoneNumber = phoneNumber,
                                 !.password = password]
    IN
    /\ UNCHANGED <<opts, now, verification, users, accounts, origin, spent>>
    /\ IF opts.validator /\ ~phoneNumberValidator(phoneNumber)
       THEN /\ ~sessionFault
            /\ last' = [req EXCEPT !.status = "BAD_REQUEST",
                                   !.message = INVALID_PHONE_NUMBER]
            /\ UNCHANGED sessions
       ELSE \E user \in findOne(users, phoneNumber) :
            LET failure == SignInCheck(user, accounts, password) IN
            IF failure # ""
            THEN /\ ~sessionFault
                 /\ last' = [req EXCEPT !.status = "UNAUTHORIZED",
                                        !.message = failure, !.user = user]
                 /\ UNCHANGED sessions
            ELSE IF sessionFault
            THEN /\ last' = [req EXCEPT !.status = "UNAUTHORIZED",
                                        !.message = FAILED_TO_CREATE_SESSION,
                                        !.user = user, !.fault = TRUE]
                 /\ UNCHANGED sessions
            ELSE /\ Len(sessions) < MaxSessions
                 /\ sessions' = createSession(sessions, user)
                 /\ last' = [req EXCEPT !.status = "OK",
                                        !.token = Len(sessions) + 1,
                                        !.user = user]

(* ---------------------------- sendPhoneNumberOTP ----------------------- *)

\* SendPersist that leaves a record that is there in place
SendPersist_KeepOld(store, phoneNumber, code, sendOTPRes, t) ==
    IF sendOTPRes.generate \/ phoneNumber \in DOMAIN store THEN store
    ELSE createVerificationValue(store, phoneNumber, code, getDate(t))

\* SendPersist that persists before it looks at what the callback returned
SendPersist_BeforeVeto(store, phoneNumber, code, sendOTPRes, t) ==
    createVerificationValue(store, phoneNumber, code, getDate(t))

\* index.ts:326-336: the verification store after the delivery callback
\* returned sendOTPRes
SendPersist(store, phoneNumber, code, sendOTPRes, t) ==
    IF sendOTPRes.generate THEN store
    ELSE createVerificationValue(store, phoneNumber, code, getDate(t))

\* history: the endpoint that wrote the record of the identifier, and the
\* code of the record it replaced
Put(map, identifier, who) ==
    [i \in DOMAIN map \cup {identifier} |->
        IF i = identifier
        THEN [by |-> who,
              over |-> IF identifier \in DOMAIN verification
                       THEN verification[identifier].value ELSE ""]
        ELSE map[i]]

\* history: the identifier is issued again
Reissued(pairs, identifier) == {x \in pairs : x[1] # identifier}

\* history: the endpoint that wrote the record a check reads
WrittenBy(identifier) ==
    IF identifier \in DOMAIN origin THEN origin[identifier].by ELSE ""

\* history: the record of the identifier is gone
Drop(map, identifier) == [i \in DOMAIN map \ {identifier} |-> map[i]]

sendPhoneNumberOTP(phoneNumber, code, sendOTPRes) ==
    LET req == [NoRequest EXCEPT !.op = "send", !.phoneNumber = phoneNumber]
    IN
    /\ UNCHANGED <<opts, now, users, accounts, sessions>>
    /\ IF ~opts.sendOTP
       THEN /\ last' = [req EXCEPT !.status = "NOT_IMPLEMENTED",
                                   !.message = SEND_OTP_NOT_IMPLEMENTED]
            /\ UNCHANGED <<verification, origin, spent>>
       ELSE IF opts.validator /\ ~phoneNumberValidator(phoneNumber)
       THEN /\ last' = [req EXCEPT !.status = "BAD_REQUEST",
                                   !.message = INVALID_PHONE_NUMBER]
            /\ UNCHANGED <<verification, origin, spent>>
       ELSE LET called == [req EXCEPT !.code = code, !.calls = {"sendOTP"},
                                      !.generate = sendOTPRes.generate,
                                      !.reason = sendOTPRes.reason]
            IN
            /\ verification' =
                   SendPersist(verification, phoneNumber, code, sendOTPRes, now)
            /\ IF sendOTPRes.generate
               THEN /\ last' = [called EXCEPT
                          !.status = "UNAUTHORIZED",
                          !.message = IF sendOTPRes.reason # NoReason
                                      THEN sendOTPRes.reason ELSE USER_CHOICE,
                          !.held = /\ phoneNumber \in DOMAIN verification
                                   /\ verification[phoneNumber].value = code]
                    /\ UNCHANGED <<origin, spent>>
               ELSE /\ last' = [called EXCEPT !.status = "OK"]
                    /\ origin' = Put(origin, phoneNumber, "send")
                    /\ spent' = Reissued(spent, phoneNumber)

(* ---------------------------- verifyPhoneNumber ------------------------ *)

\* OtpCheck with the value compared before the expiry
OtpCheck_ValueFirst(store, identifier, code, t) ==
    IF ~findVerificationValue(store, identifier) THEN OTP_NOT_FOUND
    ELSE IF store[identifier].value # code THEN INVALID_OTP
    ELSE IF store[identifier].expiresAt < t THEN OTP_EXPIRED
    ELSE ""

\* OtpCheck that does not look at expiresAt
OtpCheck_NoExpiry(store, identifier, code, t) ==
    IF ~findVerificationValue(store, identifier) THEN OTP_NOT_FOUND
    ELSE IF store[identifier].value # code THEN INVALID_OTP
    ELSE ""

\* index.ts:418-432: the error message of the OTP check, "" when it passes
OtpCheck(store, identifier, code, t) ==
    IF ~findVerificationValue(store, identifier)
       \/ store[identifier].expiresAt < t
    THEN IF findVerificationValue(store, identifier)
            /\ store[identifier].expiresAt < t
         THEN OTP_EXPIRED
         ELSE OTP_NOT_FOUND
    ELSE IF store[identifier].value # code THEN INVALID_OTP
    ELSE ""

\* OtpReject that deletes the record the check read
OtpReject_Purge(store, identifier) ==
    deleteVerificationValue(store, identifier)

\* index.ts:418-432, 624-638: the verification store after the check
\* failed; the handlers throw without another store call
OtpReject(store, identifier) == store

\* VerifyConsume without the delete
VerifyConsume_Keep(store, identifier) == store

\* index.ts:434: the verification store after the check passed
VerifyConsume(store, identifier) == deleteVerificationValue(store, identifier)

\* SignUpAttributes that leaves the number unverified
SignUpAttributes_Unverified(phoneNumber, signUpOnVerification) ==
    [email |-> getTempEmail(phoneNumber),
     name |-> IF signUpOnVerification = "emailAndName"
              THEN getTempName(phoneNumber) ELSE phoneNumber,
     phoneNumber |-> phoneNumber,
     phoneNumberVerified |-> FALSE]

\* index.ts:480-487: the attributes of the user created on verification
SignUpAttributes(phoneNumber, signUpOnVerification) ==
    [email |-> getTempEmail(phoneNumber),
     name |-> IF signUpOnVerification = "emailAndName"
              THEN getTempName(phoneNumber) ELSE phoneNumber,
     phoneNumber |-> phoneNumber,
     phoneNumberVerified |-> TRUE]

\* UpdateAttributes that marks the number verified and leaves the number
UpdateAttributes_VerifiedOnly(phoneNumber) ==
    [phoneNumberVerified |-> TRUE]

\* index.ts:442-445: the attributes the updatePhoneNumber branch writes to
\* the user of the session
UpdateAttributes(phoneNumber) ==
    [phoneNumber |-> phoneNumber, phoneNumberVerified |-> TRUE]

\* LinkAttributes that also writes the name a new user would get
LinkAttributes_AsSignUp(phoneNumber) ==
    [name |-> phoneNumber, phoneNumberVerified |-> TRUE]

\* index.ts:496-503: the attributes the lookup branch writes to the user it
\* found
LinkAttributes(phoneNumber) ==
    [phoneNumberVerified |-> TRUE]

\* SessionRequested that does not look at disableSession
SessionRequested_Always(disableSession) == TRUE

\* index.ts:524: whether the request asks for a session
SessionRequested(disableSession) == ~disableSession

\* index.ts:506-566: the response once the lookup or the provisioning is
\* done; user = 0 when neither gave a user
VerifyRespond(req, rows, accts, user, disableSession, sessionFault) ==
    /\ users' = rows
    /\ accounts' = accts
    /\ IF user = 0
       THEN /\ ~sessionFault
            /\ last' = [req EXCEPT !.status = "NULL"]
            /\ UNCHANGED sessions
       ELSE LET called == [req EXCEPT !.calls = {"callbackOnVerification"},
                                      !.user = user,
                                      !.disableSession = disableSession]
            IN
            IF ~SessionRequested(disableSession)
            THEN /\ ~sessionFault
                 /\ last' = [called EXCEPT !.status = "OK"]
                 /\ UNCHANGED sessions
            ELSE IF sessionFault
            THEN /\ last' = [called EXCEPT
                                !.status = "INTERNAL_SERVER_ERROR",
                                !.message = FAILED_TO_CREATE_SESSION,
                                !.fault = TRUE]
                 /\ UNCHANGED sessions
            ELSE /\ Len(sessions) < MaxSessions
                 /\ sessions' = createSession(sessions, user)
                 /\ last' = [called EXCEPT !.status = "OK",
                                           !.token = Len(sessions) + 1]

\* userFault: createUser returns nothing; sessionFault: createSession
\* returns nothing; session: the session of the request, 0 when it has none.
\* history: last.held records that the user the lookup found was verified
\* before the request
verifyPhoneNumber(phoneNumber, code, disableSession, updatePhoneNumber, session, userFault, sessionFault) ==
    LET failure == OtpCheck(verification, phoneNumber, code, now)
        read == [NoRequest EXCEPT !.op = "verify",
                                  !.phoneNumber = phoneNumber, !.code = code,
                                  !.by = WrittenBy(phoneNumber)]
        req == [read EXCEPT !.updatePhoneNumber = updatePhoneNumber]
    IN
    /\ UNCHANGED <<opts, now>>
    /\ IF failure # ""
       THEN /\ last' = [read EXCEPT !.status = "BAD_REQUEST",
                                    !.message = failure]
            /\ verification' = OtpReject(verification, phoneNumber)
            /\ UNCHANGED <<users, accounts, sessions, origin, spent>>
       ELSE
       /\ verification' = VerifyConsume(verification, phoneNumber)
       /\ origin' = Drop(origin, phoneNumber)
       /\ spent' = spent \cup {<<phoneNumber, code>>}
       /\ IF updatePhoneNumber
          THEN /\ ~userFault /\ ~sessionFault
               /\ IF session = 0
                  THEN /\ last' = [req EXCEPT !.status = "UNAUTHORIZED",
                                              !.message = USER_NOT_FOUND]
                       /\ UNCHANGED <<users, accounts, sessions>>
                  ELSE /\ users' = updateUser(users, sessions[session],
                                 UpdateAttributes(phoneNumber))
                       /\ last' = [req EXCEPT !.status = "OK",
                                              !.token = session,
                                              !.user = sessions[session]]
                       /\ UNCHANGED <<accounts, sessions>>
          ELSE \E user \in findOne(users, phoneNumber) :
               IF user = 0
               THEN IF opts.signUpOnVerification # "none"
                    THEN IF userFault
                         THEN /\ ~sessionFault
                              /\ last' = [req EXCEPT
                                    !.status = "INTERNAL_SERVER_ERROR",
                                    !.message = FAILED_TO_CREATE_USER,
                                    !.fault = TRUE]
                              /\ UNCHANGED <<users, accounts, sessions>>
                         ELSE /\ Len(users) < MaxUsers
                              /\ VerifyRespond(req,
                                    createUser(users,
                                        SignUpAttributes(phoneNumber,
                                            opts.signUpOnVerification)),
                                    Append(accounts, {}),
                                    Len(users) + 1,
                                    disableSession, sessionFault)
                    ELSE /\ ~userFault
                         /\ VerifyRespond(req, users, accounts, 0,
                                          disableSession, sessionFault)
               ELSE /\ ~userFault
                    /\ VerifyRespond(
                          [req EXCEPT !.held = users[user].phoneNumberVerified],
                          updateUser(users, user, LinkAttributes(phoneNumber)),
                          accounts, user, disableSession, sessionFault)

(* ---------------------------- forgetPasswordPhoneNumber ---------------- *)

\* index.ts:592-597: the verification store after the recovery code is
\* persisted
ForgetPersist(store, phoneNumber, code, t) ==
    createVerificationValue(store, ForgetIdentifier(phoneNumber), code,
                            getDate(t))

forgetPasswordPhoneNumber(phoneNumber, code) ==
    LET req == [NoRequest EXCEPT !.op = "forget", !.phoneNumber = phoneNumber]
        identifier == ForgetIdentifier(phoneNumber)
    IN
    /\ UNCHANGED <<opts, now, users, accounts, sessions>>
    /\ \E user \in findOne(users, phoneNumber) :
       IF user = 0
       THEN /\ last' = [req EXCEPT !.status = "BAD_REQUEST",
                                   !.message = NOT_REGISTERED]
            /\ UNCHANGED <<verification, origin, spent>>
       ELSE /\ verification' = ForgetPersist(verification, phoneNumber, code, now)
            /\ origin' = Put(origin, identifier, "forget")
            /\ spent' = Reissued(spent, identifier)
            /\ last' = [req EXCEPT !.status = "OK", !.code = code,
                                   !.user = user,
                                   !.calls = {"sendForgetPasswordOTP"}]

(* ---------------------------- resetPasswordPhoneNumber ----------------- *)

\* ResetOtpCheck without the comparison of the value
ResetOtpCheck_NoValue(store, identifier, otp, t) ==
    IF ~findVerificationValue(store, identifier) THEN OTP_NOT_FOUND
    ELSE IF store[identifier].expiresAt < t THEN OTP_EXPIRED
    ELSE ""

\* index.ts:624-638: the error message of the OTP check, "" when it passes
ResetOtpCheck(store, identifier, otp, t) ==
    IF ~findVerificationValue(store, identifier) THEN OTP_NOT_FOUND
    ELSE IF store[identifier].expiresAt < t THEN OTP_EXPIRED
    ELSE IF store[identifier].value # otp THEN INVALID_OTP
    ELSE ""

\* index.ts:653-654: the account rows after the new password is persisted
ResetPersist(accts, user, newPassword) ==
    updatePassword(accts, user, Hash(newPassword))

resetPasswordPhoneNumber(phoneNumber, otp, newPassword) ==
    LET read == [NoRequest EXCEPT !.op = "reset", !.phoneNumber = phoneNumber,
                                  !.code = otp,
                                  !.by = WrittenBy(ForgetIdentifier(phoneNumber))]
        failure == ResetOtpCheck(verification, ForgetIdentifier(phoneNumber),
                                 otp, now)
    IN
    /\ UNCHANGED <<opts, now, users, sessions, origin, spent>>
    /\ IF failure # ""
       THEN /\ last' = [read EXCEPT !.status = "BAD_REQUEST",
                                    !.message = failure]
            /\ verification' =
                   OtpReject(verification, ForgetIdentifier(phoneNumber))
            /\ UNCHANGED accounts
       ELSE \E user \in findOne(users, phoneNumber) :
            IF user = 0
            THEN /\ last' = [read EXCEPT !.status = "BAD_REQUEST",
                                         !.message = UNEXPECTED_ERROR]
                 /\ UNCHANGED <<verification, accounts>>
            ELSE /\ accounts' = ResetPersist(accounts, user, newPassword)
                 /\ last' = [read EXCEPT !.status = "OK", !.user = user,
                                         !.password = newPassword]
                 /\ UNCHANGED verification

(* ---------------------------- specification ---------------------------- *)

\* one more request is handled
Request ==
    /\ requests < MaxRequests
    /\ requests' = requests + 1
    /\ UNCHANGED race

\* the inputs a handler does not read are left at their defaults

SignIn ==
    /\ Request
    /\ \E phoneNumber \in Phones, password \in Passwords,
       sessionFault \in BOOLEAN :
        signInPhoneNumber(phoneNumber, password, sessionFault)

Send ==
    /\ Request
    /\ \E phoneNumber \in Phones :
        IF ~opts.sendOTP \/ (opts.validator /\ ~phoneNumberValidator(phoneNumber))
        THEN sendPhoneNumberOTP(phoneNumber, "", CHOOSE r \in SendOTPResults : TRUE)
        ELSE \E code \in generateOTP(OtpLength), sendOTPRes \in SendOTPResults :
                sendPhoneNumberOTP(phoneNumber, code, sendOTPRes)

Verify ==
    /\ Request
    /\ \E phoneNumber \in Phones, code \in Codes :
        IF OtpCheck(verification, phoneNumber, code, now) # ""
        THEN verifyPhoneNumber(phoneNumber, code, FALSE, FALSE, 0, FALSE, FALSE)
        ELSE \E disableSession \in BOOLEAN, updatePhoneNumber \in BOOLEAN,
                session \in 0..Len(sessions),
                userFault \in BOOLEAN, sessionFault \in BOOLEAN :
                verifyPhoneNumber(phoneNumber, code, disableSession,
                                  updatePhoneNumber, session,
                                  userFault, sessionFault)

ForgetPassword ==
    /\ Request
    /\ \E phoneNumber \in Phones, code \in generateOTP(OtpLength) :
        forgetPasswordPhoneNumber(phoneNumber, code)

ResetPassword ==
    /\ Request
    /\ \E phoneNumber \in Phones, otp \in Codes, newPassword \in Passwords :
        resetPasswordPhoneNumber(phoneNumber, otp, newPassword)

Next ==
    \/ Tick
    \/ SignIn
    \/ Send
    \/ Verify
    \/ ForgetPassword
    \/ ResetPassword

Spec == Init /\ [][Next]_vars

TypeOK ==
    /\ now \in 0..MaxTime
    /\ Len(users) <= MaxUsers
    /\ Len(accounts) = Len(users)
    /\ Len(sessions) <= MaxSessions
    /\ \A i \in DOMAIN verification :
          /\ verification[i].value \in Codes
          /\ verification[i].expiresAt \in 0..(MaxTime + ExpiresIn)
    /\ DOMAIN origin = DOMAIN verification
    /\ \A x \in spent : x[1] \notin DOMAIN verification
    /\ requests \in 0..MaxRequests
    /\ race = NoRace

(* ---------------------------- interleaved requests --------------------- *)

(***************************************************************************)
(* The same handlers, one store call at a time: two requests are in        *)
(* flight and the steps of one run between the steps of the other.  The    *)
(* store gives every record it creates a new id; race.ids holds the id of  *)
(* the record under each identifier, race.persisted the records in the     *)
(* order they were created; seen is the number of records that had been    *)
(* created under the identifier when the request made its first step.      *)
(***************************************************************************)

\* the two requests in flight
Procs == {1, 2}

\* the phone number the interleaved requests are about
RacePhones == {"7"}

\* a request slot before its first request
Idle ==
    [pc |-> "idle", op |-> "none", phoneNumber |-> "", code |-> "",
     otp |-> << >>, id |-> 0, seen |-> 0, user |-> 0,
     disableSession |-> FALSE, status |-> "", message |-> "", token |-> 0]

\* the slot p can take a new request
Free(p) ==
    /\ race.procs[p].pc \in {"idle", "done"}
    /\ requests < MaxRequests
    /\ requests' = requests + 1

\* the slot p becomes proc, nothing else of race changes
Move(p, proc) == race' = [race EXCEPT !.procs[p] = proc]

\* the response of a request
Done(proc, status, message) ==
    [proc EXCEPT !.pc = "done", !.status = status, !.message = message]

\* the records created under the identifier so far
PersistedFor(identifier) ==
    {k \in 1..Len(race.persisted) : race.persisted[k].identifier = identifier}

RaceInit ==
    /\ opts \in {c \in Configs : c.sendOTP /\ ~c.validator
                                 /\ c.signUpOnVerification # "email"}
    /\ now = 0
    /\ verification = << >>
    /\ \/ users = << >> /\ accounts = << >>
       \/ users = <<InitialUser>> /\ accounts = <<{}>>
    /\ sessions = << >>
    /\ last = NoRequest
    /\ origin = << >>
    /\ spent = {}
    /\ requests = 0
    /\ race = [procs |-> [p \in Procs |-> Idle], ids |-> << >>,
               persisted |-> << >>]

\* index.ts:300-330: sendPhoneNumberOTP up to the delivery callback
RaceSendDeliver ==
    \E p \in Procs, phoneNumber \in RacePhones,
       code \in generateOTP(OtpLength), sendOTPRes \in SendOTPResults :
        LET proc == [Idle EXCEPT !.op = "send", !.phoneNumber = phoneNumber,
                                 !.seen = Cardinality(PersistedFor(phoneNumber))]
        IN
        /\ Free(p)
        /\ UNCHANGED <<opts, now, verification, users, accounts, sessions,
                       last, origin, spent>>
        /\ IF ~opts.sendOTP
           THEN Move(p, Done(proc, "NOT_IMPLEMENTED", SEND_OTP_NOT_IMPLEMENTED))
           ELSE IF opts.validator /\ ~phoneNumberValidator(phoneNumber)
           THEN Move(p, Done(proc, "BAD_REQUEST", INVALID_PHONE_NUMBER))
           ELSE IF sendOTPRes.generate
           THEN Move(p, Done([proc EXCEPT !.code = code], "UNAUTHORIZED",
                             IF sendOTPRes.reason # NoReason
                             THEN sendOTPRes.reason ELSE USER_CHOICE))
           ELSE Move(p, [proc EXCEPT !.code = code, !.pc = "persist"])

\* index.ts:332-345: createVerificationValue and the response
RaceSendPersist ==
    \E p \in Procs :
        LET proc == race.procs[p]
            written == [identifier |-> proc.phoneNumber, code |-> proc.code,
                        proc |-> p, seen |-> proc.seen]
        IN
        /\ proc.pc = "persist"
        /\ verification' =
               SendPersist(verification, proc.phoneNumber, proc.code,
                           [generate |-> FALSE, reason |-> NoReason], now)
        /\ race' = [procs |-> [race.procs EXCEPT ![p] = Done(proc, "OK", "")],
                    ids |-> [i \in DOMAIN race.ids \cup {proc.phoneNumber} |->
                                IF i = proc.phoneNumber
                                THEN Len(race.persisted) + 1
                                ELSE race.ids[i]],
                    persisted |-> Append(race.persisted, written)]
        /\ UNCHANGED <<opts, now, users, accounts, sessions, last, origin,
                       spent, requests>>

\* index.ts:416: findVerificationValue; otp is what it returned
RaceVerifyFind ==
    \E p \in Procs, phoneNumber \in RacePhones, code \in Codes,
       disableSession \in BOOLEAN :
        /\ Free(p)
        /\ Move(p, [Idle EXCEPT
              !.op = "verify", !.pc = "check",
              !.phoneNumber = phoneNumber, !.code = code,
              !.disableSession = disableSession,
              !.otp = [i \in DOMAIN verification \cap {phoneNumber} |->
                          verification[i]],
              !.id = IF phoneNumber \in DOMAIN verification
                     THEN race.ids[phoneNumber] ELSE 0,
              !.seen = Cardinality(PersistedFor(phoneNumber))])
        /\ UNCHANGED <<opts, now, verification, users, accounts, sessions,
                       last, origin, spent>>

\* Checked that reads the store again
Checked_Store(otp, store) == store

\* index.ts:418-432: the record the checks read is the one find returned
Checked(otp, store) == otp

\* index.ts:418-432: the expiry and the value check
RaceVerifyCheck ==
    \E p \in Procs :
        LET proc == race.procs[p]
            failure == OtpCheck(Checked(proc.otp, verification),
                                proc.phoneNumber, proc.code, now)
        IN
        /\ proc.pc = "check"
        /\ IF failure # ""
           THEN Move(p, Done(proc, "BAD_REQUEST", failure))
           ELSE Move(p, [proc EXCEPT !.pc = "delete"])
        /\ UNCHANGED <<opts, now, verification, users, accounts, sessions,
                       last, origin, spent, requests>>

\* index.ts:434: deleteVerificationValue(otp.id)
RaceVerifyDelete ==
    \E p \in Procs :
        LET proc == race.procs[p]
            there == /\ proc.phoneNumber \in DOMAIN verification
                     /\ race.ids[proc.phoneNumber] = proc.id
        IN
        /\ proc.pc = "delete"
        /\ verification' = IF there
                           THEN VerifyConsume(verification, proc.phoneNumber)
                           ELSE verification
        /\ race' = [race EXCEPT
              !.procs[p] = [proc EXCEPT !.pc = "lookup"],
              !.ids = IF there
                      THEN [i \in DOMAIN race.ids \ {proc.phoneNumber} |->
                               race.ids[i]]
                      ELSE race.ids]
        /\ UNCHANGED <<opts, now, users, accounts, sessions, last, origin,
                       spent, requests>>

\* index.ts:468-476: the lookup by phone number
RaceVerifyLookup ==
    \E p \in Procs :
        LET proc == race.procs[p] IN
        /\ proc.pc = "lookup"
        /\ \E user \in findOne(users, proc.phoneNumber) :
              Move(p, [proc EXCEPT !.pc = "write", !.user = user])
        /\ UNCHANGED <<opts, now, verification, users, accounts, sessions,
                       last, origin, spent, requests>>

\* index.ts:477-508: createUser or updateUser, or the null response
RaceVerifyWrite ==
    \E p \in Procs :
        LET proc == race.procs[p] IN
        /\ proc.pc = "write"
        /\ UNCHANGED <<opts, now, verification, sessions, last, origin,
                       spent, requests>>
        /\ IF proc.user = 0
           THEN IF opts.signUpOnVerification # "none"
                THEN /\ Len(users) < MaxUsers
                     /\ users' = createUser(users,
                            SignUpAttributes(proc.phoneNumber,
                                             opts.signUpOnVerification))
                     /\ accounts' = Append(accounts, {})
                     /\ Move(p, [proc EXCEPT !.pc = "session",
                                             !.user = Len(users) + 1])
                ELSE /\ Move(p, Done(proc, "NULL", ""))
                     /\ UNCHANGED <<users, accounts>>
           ELSE /\ users' = updateUser(users, proc.user,
                                       LinkAttributes(proc.phoneNumber))
                /\ Move(p, [proc EXCEPT !.pc = "session"])
                /\ UNCHANGED accounts

\* index.ts:510-566: the callback, createSession and the response
RaceVerifySession ==
    \E p \in Procs :
        LET proc == race.procs[p] IN
        /\ proc.pc = "session"
        /\ UNCHANGED <<opts, now, verification, users, accounts, last,
                       origin, spent, requests>>
        /\ IF ~SessionRequested(proc.disableSession)
           THEN /\ Move(p, Done(proc, "OK", ""))
                /\ UNCHANGED sessions
           ELSE /\ Len(sessions) < MaxSessions
                /\ sessions' = createSession(sessions, proc.user)
                /\ Move(p, [Done(proc, "OK", "") EXCEPT
                               !.token = Len(sessions) + 1])

RaceNext ==
    \/ Tick
    \/ RaceSendDeliver
    \/ RaceSendPersist
    \/ RaceVerifyFind
    \/ RaceVerifyCheck
    \/ RaceVerifyDelete
    \/ RaceVerifyLookup
    \/ RaceVerifyWrite
    \/ RaceVerifySession

RaceSpec == RaceInit /\ [][RaceNext]_vars

(* ---------------------------- properties -------------------------------- *)

\* the step handled a request
Handled == requests' = requests + 1

OtpErrors == {OTP_NOT_FOUND, OTP_EXPIRED, INVALID_OTP}

\* the response r reports that the OTP check failed
CheckFailed(r) == r.status = "BAD_REQUEST" /\ r.message \in OtpErrors

\* the record of the identifier holds code c and has not expired
Live(identifier, c) ==
    /\ identifier \in DOMAIN verification
    /\ verification[identifier].value = c
    /\ ~(verification[identifier].expiresAt < now)

\* the record of the identifier has expired
Expired(identifier) ==
    /\ identifier \in DOMAIN verification
    /\ verification[identifier].expiresAt < now

C1_Step ==
    (Handled /\ last'.op = "verify") =>
        LET p == last'.phoneNumber
            c == last'.code
        IN  /\ Live(p, c) =>
                /\ ~CheckFailed(last')
                /\ p \notin DOMAIN verification'
                /\ (~last'.updatePhoneNumber /\ ~last'.fault)
                      => last'.status \in {"OK", "NULL"}
            /\ <<p, c>> \in spent =>
                /\ last'.status = "BAD_REQUEST"
                /\ last'.message = OTP_NOT_FOUND

\* C1: a verifyPhoneNumber with the code of the live, unexpired record of the
\* phone number passes the OTP check, deletes the record and (when the
\* linking step is the default one and no store call fails) answers with a
\* success; once a record is consumed, every verifyPhoneNumber with that
\* phone number and code fails with OTP_NOT_FOUND until the identifier is
\* issued again.
C1_SingleUse == [][C1_Step]_vars

\* a replay of a consumed code has just been answered with OTP_NOT_FOUND
C1_Witness ==
    /\ last.op = "verify"
    /\ last.message = OTP_NOT_FOUND
    /\ <<last.phoneNumber, last.code>> \in spent

C2_Step ==
    (Handled /\ last'.op \in {"verify", "reset"}) =>
        LET identifier == IF last'.op = "verify" THEN last'.phoneNumber
                          ELSE ForgetIdentifier(last'.phoneNumber)
        IN  Expired(identifier) =>
                /\ last'.status = "BAD_REQUEST"
                /\ last'.message = OTP_EXPIRED
                /\ UNCHANGED <<verification, users, accounts, sessions>>

\* C2: when the record of the identifier has expired, verifyPhoneNumber and
\* resetPasswordPhoneNumber fail with OTP_EXPIRED whether or not the
\* submitted code matches, and change nothing.
C2_ExpiryFirst == [][C2_Step]_vars

\* verifyPhoneNumber has just rejected the matching code of an expired record
C2_Witness ==
    /\ last.op = "verify"
    /\ last.message = OTP_EXPIRED
    /\ last.phoneNumber \in DOMAIN verification
    /\ verification[last.phoneNumber].value = last.code
    /\ verification[last.phoneNumber].expiresAt < now

\* the identifier a successful issue wrote
Issued(r) ==
    IF r.op = "send" THEN r.phoneNumber ELSE ForgetIdentifier(r.phoneNumber)

C3_Step ==
    /\ (Handled /\ last'.op \in {"send", "forget"} /\ last'.status = "OK") =>
          /\ Issued(last') \in DOMAIN verification'
          /\ verification'[Issued(last')] =
                [value |-> last'.code, expiresAt |-> now + ExpiresIn]
          /\ \A i \in DOMAIN verification' \ {Issued(last')} :
                i \in DOMAIN verification /\ verification'[i] = verification[i]
    /\ (Handled /\ last'.op = "verify"
        /\ last'.phoneNumber \in DOMAIN verification
        /\ verification[last'.phoneNumber].value # last'.code) =>
          /\ CheckFailed(last')
          /\ last'.message \in {INVALID_OTP, OTP_EXPIRED}

\* C3: a successful issue leaves under its identifier the one record with
\* the code it generated, whatever was there before, and touches no other
\* identifier; a verifyPhoneNumber with a code other than the stored one
\* (an earlier issued code among them) fails.
C3_ReissueSupersedes == [][C3_Step]_vars

\* verifyPhoneNumber has just rejected the code that a re-issue replaced
C3_Witness ==
    /\ last.op = "verify"
    /\ last.message = INVALID_OTP
    /\ last.phoneNumber \in DOMAIN origin
    /\ origin[last.phoneNumber].over = last.code

\* C4: the record that resetPasswordPhoneNumber validates against was never
\* stored by sendPhoneNumberOTP, and the record that verifyPhoneNumber
\* validates against was never stored by forgetPasswordPhoneNumber.
C4_NamespaceIndependence ==
    /\ (last.op = "reset" /\ ~CheckFailed(last)) => last.by # "send"
    /\ (last.op = "verify" /\ ~CheckFailed(last)) => last.by # "forget"

C5_Step ==
    (Handled /\ last.op = "reset" /\ last.status = "OK"
     /\ last.by = "forget"
     /\ last'.op = "reset" /\ last'.phoneNumber = last.phoneNumber
     /\ last'.code = last.code /\ last'.by = "forget") =>
        /\ last'.status # "OK"
        /\ accounts' = accounts

\* C5: after a resetPasswordPhoneNumber succeeded with the recovery code that
\* forgetPasswordPhoneNumber issued, the next resetPasswordPhoneNumber with
\* the same phone number and code, with no forgetPasswordPhoneNumber in
\* between, does not succeed and does not change a password.
C5_RecoverySingleUse == [][C5_Step]_vars

C6_Step ==
    /\ (\E id \in 1..Len(accounts) : accounts'[id] # accounts[id]) =>
          /\ Handled
          /\ last'.op = "reset"
          /\ last'.status = "OK"
          /\ Live(ForgetIdentifier(last'.phoneNumber), last'.code)
          /\ last'.user \in 1..Len(users)
          /\ users[last'.user].phoneNumber = last'.phoneNumber
          /\ \A id \in 1..Len(accounts) \ {last'.user} :
                accounts'[id] = accounts[id]
    /\ (Handled /\ last'.op = "reset" /\ last'.status # "OK") =>
          accounts' = accounts

\* C6: the account rows of a user change only in a resetPasswordPhoneNumber
\* that succeeds, whose otp is the value of the live, unexpired record under
\* phoneNumber + "-forget-password", and only for a user who holds that
\* phone number; a resetPasswordPhoneNumber that fails changes no account.
C6_ResetGated == [][C6_Step]_vars

\* a resetPasswordPhoneNumber has just replaced the password "a" by "b"
C6_Witness ==
    /\ last.op = "reset"
    /\ last.status = "OK"
    /\ last.password = "b"
    /\ \E a \in CredentialAccounts(accounts, last.user) :
          a.password = Hash("b")

\* C7: a signInPhoneNumber that fails in one of the four stages between the
\* user lookup and the session answers INVALID_PHONE_NUMBER_OR_PASSWORD.
C7_UniformFailure ==
    (last.op = "signIn" /\ last.status = "UNAUTHORIZED" /\ ~last.fault) =>
        last.message = INVALID_PHONE_NUMBER_OR_PASSWORD

C8_Step ==
    (Handled /\ last'.op = "verify" /\ ~CheckFailed(last')
     /\ ~last'.updatePhoneNumber
     /\ \A id \in 1..Len(users) :
           users[id].phoneNumber # last'.phoneNumber) =>
        LET p == last'.phoneNumber IN
        IF opts.signUpOnVerification = "none"
        THEN /\ users' = users
             /\ sessions' = sessions
             /\ last'.status = "NULL"
             /\ last'.message = ""
             /\ last'.token = 0
             /\ last'.user = 0
        ELSE last'.status = "OK" =>
             /\ users' = Append(users,
                   [phoneNumber |-> p,
                    phoneNumberVerified |-> TRUE,
                    email |-> getTempEmail(p),
                    name |-> IF opts.signUpOnVerification = "emailAndName"
                             THEN getTempName(p) ELSE p])
             /\ last'.user = Len(users) + 1

\* C8: a verifyPhoneNumber (updatePhoneNumber not set) that passes the OTP
\* check for a number no user has: with signUpOnVerification, when it
\* succeeds it has appended exactly one user, with that phoneNumber,
\* phoneNumberVerified = true, email = getTempEmail(number) and name =
\* getTempName(number) or the number; without signUpOnVerification it
\* creates no user and no session, raises no error and answers null.
C8_SignUpOnVerification == [][C8_Step]_vars

\* a verifyPhoneNumber has just created a user with the temporary name
C8_Witness ==
    /\ last.op = "verify"
    /\ last.status = "OK"
    /\ last.user = Len(users)
    /\ last.user > 0
    /\ users[last.user].email = getTempEmail(last.phoneNumber)
    /\ users[last.user].name = getTempName(last.phoneNumber)
    /\ users[last.user].phoneNumberVerified

C9_Step ==
    (Handled /\ last.op = "reset" /\ last.status = "OK"
     /\ last.by = "forget"
     /\ last'.op = "signIn" /\ last'.phoneNumber = last.phoneNumber
     /\ ~last'.fault
     /\ (opts.validator => phoneNumberValidator(last.phoneNumber))) =>
        /\ last'.password = last.password => last'.status = "OK"
        /\ last'.password # last.password => last'.status # "OK"

\* C9: a signInPhoneNumber that follows a forgetPasswordPhoneNumber and a
\* successful resetPasswordPhoneNumber for the same phone number (one the
\* validator accepts, no store call failing) succeeds with the new password
\* and fails with any other.
C9_ResetThenSignIn == [][C9_Step]_vars

C10_Step ==
    /\ (Handled /\ last'.op = "send" /\ last'.generate) =>
          /\ last'.status = "UNAUTHORIZED"
          /\ last'.message = IF last'.reason # NoReason THEN last'.reason
                             ELSE USER_CHOICE
          /\ verification' = verification
    /\ (Handled /\ last.op = "send" /\ last.generate /\ ~last.held
        /\ last'.op = "verify" /\ last'.phoneNumber = last.phoneNumber
        /\ last'.code = last.code) =>
          CheckFailed(last')

\* C10: a sendPhoneNumberOTP whose sendOTP callback returns a truthy generate
\* fails with an unauthorized error carrying reason, or the default message,
\* and leaves the verification store as it was; the code handed to the
\* callback does not pass the OTP check of the following verifyPhoneNumber,
\* unless the store held that very code for the number before the call.
C10_DeliveryVeto == [][C10_Step]_vars

\* a sendPhoneNumberOTP has just been vetoed, no record stands for the number
C10_Witness ==
    /\ last.op = "send"
    /\ last.generate
    /\ last.status = "UNAUTHORIZED"
    /\ last.calls = {"sendOTP"}
    /\ last.phoneNumber \notin DOMAIN verification

\* a user holds the phone number
Registered(rows, phoneNumber) ==
    \E id \in 1..Len(rows) : rows[id].phoneNumber = phoneNumber

C11_Step ==
    /\ (Handled /\ last'.op = "forget"
        /\ ~Registered(users, last'.phoneNumber)) =>
          /\ last'.status = "BAD_REQUEST"
          /\ last'.message = NOT_REGISTERED
          /\ last'.calls = {}
          /\ verification' = verification
    /\ \A p \in Phones :
          LET identifier == ForgetIdentifier(p) IN
          (/\ identifier \in DOMAIN verification'
           /\ \/ identifier \notin DOMAIN verification
              \/ verification'[identifier] # verification[identifier]) =>
              Registered(users, p)

\* C11: a forgetPasswordPhoneNumber for a phone number no user holds fails
\* with "phone number isn't registered", writes no verification record and
\* calls no delivery callback; and whenever a record is written under an
\* identifier phoneNumber + "-forget-password", a user holds that
\* phoneNumber.
C11_RecoveryGated == [][C11_Step]_vars

C12_Step ==
    (Handled /\ last'.op = "verify" /\ ~CheckFailed(last')
     /\ last'.updatePhoneNumber) =>
        IF last'.token = 0
        THEN /\ last'.status = "UNAUTHORIZED"
             /\ last'.message = USER_NOT_FOUND
             /\ UNCHANGED <<users, accounts, sessions>>
        ELSE LET user == sessions[last'.token] IN
             /\ last'.status = "OK"
             /\ last'.token \in 1..Len(sessions)
             /\ last'.user = user
             /\ Len(users') = Len(users)
             /\ users'[user].phoneNumber = last'.phoneNumber
             /\ users'[user].phoneNumberVerified
             /\ users'[user].email = users[user].email
             /\ users'[user].name = users[user].name
             /\ \A id \in 1..Len(users) \ {user} : users'[id] = users[id]
             /\ last'.calls = {}
             /\ UNCHANGED <<accounts, sessions>>

\* C12: a verifyPhoneNumber with updatePhoneNumber = true that passes the
\* OTP check fails with UNAUTHORIZED and changes no user when the request
\* has no session; with a session it sets phoneNumber to the verified number
\* and phoneNumberVerified to true on the user of the session, changes no
\* other user, creates no user and no session, calls no callback and
\* answers with the token of the existing session.
C12_UpdateBranch == [][C12_Step]_vars

\* a verifyPhoneNumber has just moved the session's user, who held no
\* number, to the verified one
C12_Witness ==
    /\ last.op = "verify"
    /\ last.updatePhoneNumber
    /\ last.status = "OK"
    /\ last.token = 1
    /\ last.calls = {}
    /\ users[sessions[1]].phoneNumber = last.phoneNumber
    /\ users[sessions[1]].phoneNumberVerified
    /\ users[sessions[1]].email = SessionUser.email

\* the users who hold the phone number
Holders(rows, phoneNumber) ==
    {id \in 1..Len(rows) : rows[id].phoneNumber = phoneNumber}

C13_Step ==
    (Handled /\ last'.op = "verify" /\ ~CheckFailed(last')
     /\ ~last'.updatePhoneNumber
     /\ Holders(users, last'.phoneNumber) # {}) =>
        LET user == last'.user IN
        /\ user \in Holders(users, last'.phoneNumber)
        /\ Len(users') = Len(users)
        /\ users'[user].phoneNumberVerified
        /\ users'[user].phoneNumber = users[user].phoneNumber
        /\ users'[user].email = users[user].email
        /\ users'[user].name = users[user].name
        /\ \A id \in 1..Len(users) \ {user} : users'[id] = users[id]
        /\ users[user].phoneNumberVerified => users' = users

\* C13: a verifyPhoneNumber (updatePhoneNumber not set) that passes the OTP
\* check for a number a user holds sets phoneNumberVerified to true on the
\* holder the lookup found, leaves that user's phoneNumber and other fields
\* and every other user as they were and creates no user; when that holder
\* is verified already (every time after the first), the users are left
\* exactly as they were.
C13_IdempotentLinking == [][C13_Step]_vars

\* issue and verify have just been repeated for the number of a user whom
\* an earlier verifyPhoneNumber marked verified
C13_Witness ==
    /\ last.op = "verify"
    /\ ~last.updatePhoneNumber
    /\ last.status = "OK"
    /\ last.held
    /\ last.user = 1
    /\ users[1] = [InitialUser EXCEPT !.phoneNumberVerified = TRUE]
    /\ Len(users) = 1

C14_Step ==
    (Handled /\ last'.op = "verify") =>
        LET due == /\ ~CheckFailed(last')
                   /\ ~last'.updatePhoneNumber
                   /\ last'.user # 0
                   /\ ~last'.disableSession
        IN
        /\ sessions' # sessions =>
              /\ due
              /\ last'.status = "OK"
              /\ sessions' = Append(sessions, last'.user)
              /\ last'.token = Len(sessions')
              /\ last'.user \in Holders(users', last'.phoneNumber)
        /\ (due /\ ~last'.fault) => sessions' # sessions
        /\ (~CheckFailed(last') /\ ~last'.updatePhoneNumber
            /\ last'.user # 0 /\ last'.disableSession) =>
              /\ last'.status = "OK"
              /\ last'.token = 0
              /\ last'.user \in Holders(users', last'.phoneNumber)
              /\ sessions' = sessions
        /\ (CheckFailed(last') \/ last'.status = "NULL") =>
              sessions' = sessions

\* C14: a verifyPhoneNumber creates a session exactly when the OTP check
\* passed, updatePhoneNumber is not set, the lookup or the provisioning gave
\* a user and disableSession is not true (and createSession did not fail);
\* the session is the one new row, it belongs to that user and its token is
\* the one answered.  With disableSession = true the answer carries that
\* user and no token and no session is created; a failed OTP check and the
\* null answer create no session.
C14_SessionIssuance == [][C14_Step]_vars

\* a verifyPhoneNumber has just created the session of the user it found
C14_Witness ==
    /\ last.op = "verify"
    /\ ~last.updatePhoneNumber
    /\ ~last.disableSession
    /\ last.status = "OK"
    /\ last.token = Len(sessions)
    /\ last.token > 0
    /\ sessions[last.token] = last.user
    /\ users[last.user].phoneNumber = last.phoneNumber

C15_Step ==
    /\ \A id \in 1..Len(users') :
          (/\ users'[id].phoneNumberVerified
           /\ \/ id > Len(users)
              \/ ~users[id].phoneNumberVerified
              \/ users'[id].phoneNumber # users[id].phoneNumber) =>
              /\ Handled
              /\ last'.op = "verify"
              /\ ~CheckFailed(last')
              /\ Live(last'.phoneNumber, last'.code)
              /\ users'[id].phoneNumber = last'.phoneNumber
    /\ \A id \in 1..Len(users) :
          users[id].phoneNumberVerified =>
              /\ id <= Len(users')
              /\ users'[id].phoneNumberVerified

\* C15: a user comes to have phoneNumberVerified = true, or to hold another
\* number while verified, only in a verifyPhoneNumber whose submitted code
\* is the value of the live, unexpired record of exactly the number the user
\* holds afterwards; no step of any endpoint sets phoneNumberVerified back
\* to false or removes a verified user.
C15_VerifiedIsEarned == [][C15_Step]_vars

\* the initial user, unverified until now, has just been marked verified by
\* a verifyPhoneNumber for the number it holds
C15_Witness ==
    /\ last.op = "verify"
    /\ ~last.updatePhoneNumber
    /\ ~CheckFailed(last)
    /\ ~last.held
    /\ last.user = 1
    /\ users[1].phoneNumber = InitialUser.phoneNumber
    /\ users[1].email = InitialUser.email
    /\ users[1].phoneNumberVerified
    /\ last.phoneNumber = users[1].phoneNumber

\* C16: no two distinct users hold the same phoneNumber (a phoneNumber that
\* is not set is no number).
C16_PhoneNumbersUnique ==
    \A id1 \in 1..Len(users), id2 \in 1..Len(users) :
        (id1 # id2 /\ users[id1].phoneNumber # NoPhoneNumber) =>
            users[id1].phoneNumber # users[id2].phoneNumber

\* the record find returned to the request is live and holds its code
SnapshotPasses(proc) ==
    /\ proc.phoneNumber \in DOMAIN proc.otp
    /\ proc.otp[proc.phoneNumber].value = proc.code
    /\ ~(proc.otp[proc.phoneNumber].expiresAt < now)

C17_Step ==
    \A p \in Procs :
        LET proc == race.procs[p]
            next == race'.procs[p]
        IN
        /\ (proc.pc \in {"idle", "done"} /\ next.pc = "check") =>
              /\ verification' = verification
              /\ next.otp = [i \in DOMAIN verification \cap {next.phoneNumber}
                                |-> verification[i]]
        /\ (proc.pc = "check" /\ next # proc) =>
              /\ verification' = verification
              /\ next.pc = IF SnapshotPasses(proc) THEN "delete" ELSE "done"
              /\ ~SnapshotPasses(proc) =>
                    next.status = "BAD_REQUEST" /\ next.message \in OtpErrors
        /\ (proc.pc = "delete" /\ next # proc) =>
              /\ next.pc = "lookup"
              /\ DOMAIN verification' \subseteq DOMAIN verification
              /\ DOMAIN verification \ DOMAIN verification'
                    \subseteq {proc.phoneNumber}
              /\ \A i \in DOMAIN verification' :
                    verification'[i] = verification[i]

\* C17: in verifyPhoneNumber, find, the checks and delete are three steps
\* that other requests run between.  find copies the record and changes
\* nothing; the checks read that copy and the clock, never the store, so
\* they pass for a live matching copy whether or not the record is still
\* stored; delete removes at most the record of the identifier and goes on
\* to the linking step also when the record is gone already.
C17_NoAtomicConsume == [][C17_Step]_vars

\* two interleaved verifyPhoneNumber requests have both answered with a
\* success from the one code that was ever issued for the number
C17_Witness ==
    /\ Len(race.persisted) = 1
    /\ \A p \in Procs :
          /\ race.procs[p].op = "verify"
          /\ race.procs[p].pc = "done"
          /\ race.procs[p].status = "OK"
          /\ race.procs[p].user # 0
          /\ race.procs[p].id = 1
          /\ race.procs[p].code = race.persisted[1].code

\* the request passed the checks of index.ts:418-432
Passed(proc) ==
    /\ proc.op = "verify"
    /\ \/ proc.pc \in {"delete", "lookup", "write", "session"}
       \/ proc.pc = "done" /\ proc.status \in {"OK", "NULL"}

\* the record created last under the identifier
LastPersisted(identifier) ==
    race.persisted[CHOOSE k \in PersistedFor(identifier) :
                      \A j \in PersistedFor(identifier) : j <= k]

C18_State ==
    \A identifier \in RacePhones :
        PersistedFor(identifier) # {} =>
            /\ identifier \in DOMAIN verification =>
                  verification[identifier].value =
                      LastPersisted(identifier).code
            /\ \A p \in Procs :
                  (/\ Passed(race.procs[p])
                   /\ race.procs[p].phoneNumber = identifier
                   /\ race.procs[p].seen =
                          Cardinality(PersistedFor(identifier))) =>
                      race.procs[p].code = LastPersisted(identifier).code

C18_Step ==
    /\ C18_State'
    /\ \A p \in Procs :
          (race.procs[p].pc = "persist" /\ race'.procs[p].pc = "done") =>
              LET identifier == race.procs[p].phoneNumber IN
              /\ identifier \in DOMAIN verification'
              /\ verification'[identifier] =
                     [value |-> race.procs[p].code,
                      expiresAt |-> now + ExpiresIn]
              /\ LastPersisted(identifier)'.proc = p
              /\ \A i \in DOMAIN verification' \ {identifier} :
                    i \in DOMAIN verification
                    /\ verification'[i] = verification[i]

\* C18: when sendPhoneNumberOTP requests for one identifier interleave,
\* each persist leaves under the identifier the one record with the code of
\* the request that persisted, so the record that stands is the one of the
\* request that persisted last; a verifyPhoneNumber that starts after the
\* persists passes the checks only with that code (the code of the other
\* request, when it is a different one, fails).
C18_LastWriteWins == [][C18_Step]_vars

\* two sendPhoneNumberOTP requests had both delivered before either
\* persisted; the record holds the code of the one that persisted last and
\* a verifyPhoneNumber with the other code has just failed
C18_Witness ==
    /\ Len(race.persisted) = 2
    /\ race.persisted[1].seen = 0
    /\ race.persisted[2].seen = 0
    /\ race.persisted[1].proc # race.persisted[2].proc
    /\ race.persisted[1].code # race.persisted[2].code
    /\ "7" \in DOMAIN verification
    /\ verification["7"].value = race.persisted[2].code
    /\ \E p \in Procs :
          /\ race.procs[p].op = "verify"
          /\ race.procs[p].seen = 2
          /\ race.procs[p].code = race.persisted[1].code
          /\ race.procs[p].pc = "done"
          /\ race.procs[p].message = INVALID_OTP

\* the identifier whose record the request checked
Checks(r) ==
    IF r.op = "reset" THEN ForgetIdentifier(r.phoneNumber) ELSE r.phoneNumber

C19_Step ==
    /\ (Handled /\ last'.op \in {"verify", "reset"} /\ CheckFailed(last')) =>
          /\ UNCHANGED <<verification, users, accounts, sessions>>
          /\ last'.message = INVALID_OTP =>
                /\ Checks(last') \in DOMAIN verification'
                /\ verification'[Checks(last')].value # last'.code
                /\ ~(verification'[Checks(last')].expiresAt < now')
          /\ last'.message = OTP_EXPIRED =>
                Checks(last') \in DOMAIN verification'
    /\ (Handled /\ last.op \in {"verify", "reset"}
        /\ last.message = INVALID_OTP
        /\ last'.op = last.op /\ last'.phoneNumber = last.phoneNumber
        /\ Live(Checks(last), last'.code)) =>
          ~CheckFailed(last')

\* C19: a verifyPhoneNumber or resetPasswordPhoneNumber that fails with
\* OTP_NOT_FOUND, OTP_EXPIRED or INVALID_OTP leaves the verification store,
\* the users, the accounts and the sessions as they were: after a wrong
\* guess the record is still live with its code, and the same endpoint
\* called next with that code before expiry passes the check; an expired
\* record is still stored after the call that found it expired.
C19_FailedCheckFrame == [][C19_Step]_vars

\* a wrong guess has just been rejected and the record of the number is
\* still live with the code it had
C19_Witness ==
    /\ last.op = "verify"
    /\ last.message = INVALID_OTP
    /\ last.phoneNumber \in DOMAIN verification
    /\ verification[last.phoneNumber].value # last.code
    /\ ~(verification[last.phoneNumber].expiresAt < now)

\* the request passed the OTP check and its linking step gave no user and
\* no session: an error after the check, or the null answer
LinkingFailed(r) ==
    /\ r.op = "verify"
    /\ ~CheckFailed(r)
    /\ r.status # "OK"

C20_Step ==
    /\ (Handled /\ LinkingFailed(last')) =>
          /\ last'.status \in {"UNAUTHORIZED", "INTERNAL_SERVER_ERROR", "NULL"}
          /\ Live(last'.phoneNumber, last'.code)
          /\ last'.phoneNumber \notin DOMAIN verification'
    /\ (Handled /\ LinkingFailed(last)
        /\ last'.op = "verify" /\ last'.phoneNumber = last.phoneNumber
        /\ last'.code = last.code) =>
          /\ last'.status = "BAD_REQUEST"
          /\ last'.message = OTP_NOT_FOUND

\* C20: when a verifyPhoneNumber passes the OTP check and its linking step
\* then fails (UNAUTHORIZED for updatePhoneNumber without a session, user
\* creation or session creation failing) or answers null, the record it
\* checked is deleted all the same, and the verifyPhoneNumber that follows
\* with the same number and code fails with OTP_NOT_FOUND.
C20_ConsumedBeforeLinking == [][C20_Step]_vars

\* verifyPhoneNumber with updatePhoneNumber and no session has just failed
\* with UNAUTHORIZED, and the record it checked is gone
C20_Witness ==
    /\ last.op = "verify"
    /\ last.updatePhoneNumber
    /\ last.status = "UNAUTHORIZED"
    /\ last.message = USER_NOT_FOUND
    /\ last.phoneNumber \notin DOMAIN verification
    /\ <<last.phoneNumber, last.code>> \in spent

====
